---- MODULE Spec2Model ----
(***************************************************************************)
(* A model of pool.h: Pool<T, GrowthFactor, MaxBlockSize>, an object pool  *)
(* that hands out slots of geometrically growing blocks and threads a      *)
(* singly linked free list through the unused slots of all its blocks.     *)
(*                                                                         *)
(* Memory is modelled explicitly.  A block is an array of Items indexed    *)
(* from 0; an Item address (a "slot") is the pair <<block, index>>; a      *)
(* union Item holds either the link m_next or the storage of an object.    *)
(* Every per-pool member is a function of the pool's name, so that several *)
(* Pool objects can share one heap.                                        *)
(***************************************************************************)
EXTENDS Integers, Sequences, FiniteSets, Bags, TLC

VARIABLES
    GrowthFactor,   \* template parameter of the instantiation
    MaxBlockSize,   \* template parameter of the instantiation
    size,           \* the argument the pools were constructed with
    heap,           \* upstream allocator: block address -> array of Items
    m_blocks,       \* pool -> sequence of owned block addresses
    m_blockSize,    \* pool -> current block size
    m_nextFree,     \* pool -> head of the free list (a slot, or Null)
    live,           \* pool -> bag of the handles the caller holds
    leaked,         \* pool -> slots holding a half-built object nobody owns
    event,          \* what the last call did and returned
    round,          \* observer of a construct-N / destroy-N round trip
    ref,            \* observer: a fresh pool run next to a released one
    freed,          \* observer: pool -> the handles destroyed and not yet reused
    n_iterations,   \* MassAllocPool: the number of objects of the run
    ptrs,           \* MassAllocPool: the vector of handles
    iter,           \* MassAllocPool: the index i of the destroy loop
    phase           \* which caller drives the pool, and where it is

vars == <<GrowthFactor, MaxBlockSize, size, heap, m_blocks, m_blockSize,
          m_nextFree, live, leaked, event, round, ref, freed, n_iterations,
          ptrs, iter, phase>>

callerVars == <<n_iterations, ptrs, iter, phase>>

paramVars == <<GrowthFactor, MaxBlockSize, size>>

poolVars == <<heap, m_blocks, m_blockSize, m_nextFree>>

(***************************************************************************)
(* Bounds of the model.                                                    *)
(***************************************************************************)
\* largest MaxBlockSize of the small instantiations
MaxMaxBlockSize == 2
\* largest GrowthFactor of the small instantiations
MaxGrowthFactor == 2
\* most slots the mixed workload keeps out of the free list at once
MaxLive == 4
\* n_iterations of the long MassAllocPool run
NIterations == 3100
\* every n_iterations up to this one is run too
SmallIterations == 24
\* the largest size a Multipool is built with
MaxMultiSize == 2
\* most slots of one type the Multipool workload keeps out of the free list
MaxMultiLive == 2
\* the largest block a pool of the Multipool workload grows to
MaxMultiBlockSize == 2
\* most slots the move workload keeps out of the free lists, all pools together
MaxMoveLive == 2
\* most blocks the move workload has allocated at once
MaxMoveBlocks == 1

(***************************************************************************)
(* Program constants.                                                      *)
(***************************************************************************)
\* template <typename T, size_t GrowthFactor = 2, ...>
DefaultGrowthFactor == 2
\* template <..., size_t MaxBlockSize = 1024>
DefaultMaxBlockSize == 1024
\* static constexpr size_t pool_init_block_size = 8;
pool_init_block_size == 8

(***************************************************************************)
(* Memory.                                                                 *)
(***************************************************************************)
\* nullptr
Null == <<0, 0>>

\* union Item read as the link m_next
Link(s) == [tag |-> "m_next", m_next |-> s]

\* union Item holding a constructed T in m_storage
Object == [tag |-> "m_storage", m_next |-> Null]

\* union Item whose storage a constructor left half written
Garbage == [tag |-> "garbage", m_next |-> Null]

Min(a, b) == IF a <= b THEN a ELSE b

\* the address the upstream allocator returns: the lowest unused one
NewAddress == CHOOSE b \in 1..(Cardinality(DOMAIN heap) + 1) : b \notin DOMAIN heap

\* the threading loop stopping one item early
ThreadedBlockShort(b, n) ==
    [i \in 0..(n - 1) |-> Link(IF i + 2 < n THEN <<b, i + 1>> ELSE Null)]

\* the block as Item() leaves it, the threading loop left out
ThreadedBlockUnlinked(b, n) == [i \in 0..(n - 1) |-> Link(Null)]

\* std::make_unique<Item[]>(n) followed by the threading loop:
\* Item() nulls every link, then item i-1 is linked to item i
ThreadedBlock(b, n) ==
    [i \in 0..(n - 1) |-> Link(IF i + 1 < n THEN <<b, i + 1>> ELSE Null)]

\* the slots of block b
SlotsOf(b) == {<<b, i>> : i \in DOMAIN heap[b]}

\* the size of every block the pool owns, in allocation order
BlockSizes(p) == [k \in 1..Len(m_blocks[p]) |-> Cardinality(DOMAIN heap[m_blocks[p][k]])]

\* every slot of every block the pool owns
Slots(p) == UNION {SlotsOf(m_blocks[p][k]) : k \in 1..Len(m_blocks[p])}

\* the Item at address s
At(s) == heap[s[1]][s[2]]

RECURSIVE Walk(_, _)
\* the chain of slots from s along m_next, at most fuel long
Walk(s, fuel) ==
    IF s = Null \/ fuel = 0 \/ s[1] \notin DOMAIN heap THEN <<>>
    ELSE <<s>> \o Walk(At(s).m_next, fuel - 1)

\* the free list as print() walks it; one step longer than the pool has
\* slots when the chain is cyclic
FreeList(p) == Walk(m_nextFree[p], Cardinality(Slots(p)) + 1)

FreeCount(p) == Len(FreeList(p))

Range(f) == {f[x] : x \in DOMAIN f}

\* full() answering whether the pool owns no block
fullNoBlocks(p) == m_blocks[p] = <<>>

\* bool full() const
full(p) == m_nextFree[p] = Null

(***************************************************************************)
(* Pool::allocate                                                          *)
(***************************************************************************)
\* the growth without its cap
GrownBlockSizeUncapped(p) == GrowthFactor * m_blockSize[p]

\* m_blockSize = std::min(GrowthFactor * m_blockSize, MaxBlockSize)
GrownBlockSize(p) == Min(GrowthFactor * m_blockSize[p], MaxBlockSize)

\* the head left on the item handed out
PopFreeStuck(h, freeItem) == freeItem

\* m_nextFree = freeItem->m_next
PopFree(h, freeItem) == h[freeItem[1]][freeItem[2]].m_next

\* the new block put in place of the blocks held
ReplaceBlocks(blocks, b) == <<b>>

\* m_blocks.emplace_back(...)
AppendBlock(blocks, b) == Append(blocks, b)

\* allocate(): the state it leaves and the slot it returns.  upstream tells
\* whether the upstream allocator serves a request for a block.
allocate(p, upstream) ==
    LET grow == m_nextFree[p] = Null
        bs   == IF grow THEN GrownBlockSize(p) ELSE m_blockSize[p]
        b    == NewAddress
        h    == IF grow /\ upstream THEN (b :> ThreadedBlock(b, bs)) @@ heap ELSE heap
        bl   == IF grow /\ upstream THEN AppendBlock(m_blocks[p], b) ELSE m_blocks[p]
        head == IF grow THEN <<b, 0>> ELSE m_nextFree[p]
    IN  IF grow /\ ~upstream
        THEN \* make_unique throws after m_blockSize was assigned
             [heap |-> heap, m_blocks |-> bl, m_blockSize |-> bs,
              m_nextFree |-> m_nextFree[p], ret |-> Null, threw |-> TRUE,
              grew |-> 0]
        ELSE [heap |-> h, m_blocks |-> bl, m_blockSize |-> bs,
              m_nextFree |-> PopFree(h, head), ret |-> head, threw |-> FALSE,
              grew |-> IF grow THEN bs ELSE 0]

(***************************************************************************)
(* Observers.  They read the pool and never influence it.                  *)
(***************************************************************************)
NoRound == [on |-> FALSE, pool |-> "none", free0 |-> 0, gained |-> 0, n |-> 0,
            objs |-> {}, freeing |-> FALSE]

\* a round after a construct on pool p that returned slot s and gained g
\* slots: a failed call, or one after the first destroy, ends the round
RoundConstruct(p, ok, s, g) ==
    IF round.pool # p THEN round
    ELSE IF ok /\ ~round.freeing
    THEN [round EXCEPT !.gained = @ + g, !.n = @ + 1, !.objs = @ \cup {s}]
    ELSE NoRound

\* a round after destroy(s) on pool p: destroying an object that is not of
\* the round ends it
RoundDestroy(p, s) ==
    IF round.pool # p \/ s = Null THEN round
    ELSE IF s \in round.objs
    THEN [round EXCEPT !.objs = @ \ {s}, !.freeing = TRUE]
    ELSE NoRound

NoRef == [on |-> FALSE, pool |-> "none", used |-> FALSE, sizes |-> <<>>, free |-> 0,
          blockSize |-> 0]

\* Pool(size), counted: one block of size slots, all of them free
FreshPool(p) ==
    [on |-> TRUE, pool |-> p, used |-> FALSE, sizes |-> <<size>>, free |-> size,
     blockSize |-> size]

\* construct() on the fresh pool, counted
RefConstruct(p, ok) ==
    IF ref.pool # p THEN ref
    ELSE IF ~ok THEN NoRef
    ELSE IF ref.free = 0
    THEN LET bs == Min(GrowthFactor * ref.blockSize, MaxBlockSize)
         IN  [ref EXCEPT !.used = TRUE, !.sizes = Append(@, bs), !.free = bs - 1,
                         !.blockSize = bs]
    ELSE [ref EXCEPT !.used = TRUE, !.free = @ - 1]

\* destroy() on the fresh pool, counted
RefDestroy(p, s) ==
    IF ref.pool # p \/ s = Null THEN ref ELSE [ref EXCEPT !.free = @ + 1]

\* the destroyed handles after a construct: the call takes the last one
FreedConstruct(p, took) ==
    IF took /\ freed[p] # <<>> THEN [freed EXCEPT ![p] = Tail(@)] ELSE freed

\* the destroyed handles after destroy(s)
FreedDestroy(p, s) ==
    IF s = Null THEN freed ELSE [freed EXCEPT ![p] = <<s>> \o @]

(***************************************************************************)
(* Pool's operations.                                                      *)
(***************************************************************************)
\* new (slot) type(args...): the constructor fills the storage or throws
PlacementNew(h, slot, ctorOk) ==
    [h EXCEPT ![slot[1]][slot[2]] = IF ctorOk THEN Object ELSE Garbage]

\* pointer construct(Ts&& ...args)
construct(p, upstream, ctorOk) ==
    LET a  == allocate(p, upstream)
        ok == ~a.threw /\ ctorOk
    IN  /\ m_blocks' = [m_blocks EXCEPT ![p] = a.m_blocks]
        /\ m_blockSize' = [m_blockSize EXCEPT ![p] = a.m_blockSize]
        /\ m_nextFree' = [m_nextFree EXCEPT ![p] = a.m_nextFree]
        /\ heap' = IF a.threw THEN a.heap ELSE PlacementNew(a.heap, a.ret, ctorOk)
        /\ live' = IF ok THEN [live EXCEPT ![p] = @ (+) SetToBag({a.ret})] ELSE live
        /\ leaked' = IF ~a.threw /\ ~ctorOk
                     THEN [leaked EXCEPT ![p] = @ \cup {a.ret}] ELSE leaked
        /\ event' = [op |-> "construct", pool |-> p, arg |-> Null,
                     ret |-> IF ok THEN a.ret ELSE Null,
                     threw |-> IF a.threw THEN "bad_alloc"
                               ELSE IF ctorOk THEN "none" ELSE "constructor",
                     grew |-> a.grew, dtors |-> 0, dropped |-> 0]
        /\ round' = RoundConstruct(p, ok, a.ret, a.grew)
        /\ ref' = RefConstruct(p, ok)
        /\ freed' = FreedConstruct(p, ~a.threw)

\* the freed item linked to itself
LinkFreedSelf(p, ptr) == Link(ptr)

\* the freed item linked to nothing
LinkFreedNull(p, ptr) == Link(Null)

\* item->m_next = m_nextFree
LinkFreed(p, ptr) == Link(m_nextFree[p])

\* the head left where it was
PushFreeLost(p, ptr) == m_nextFree[p]

\* m_nextFree = item
PushFree(p, ptr) == ptr

\* void deallocate(pointer p) noexcept: the heap and the head it leaves
deallocate(p, ptr) ==
    [heap |-> [heap EXCEPT ![ptr[1]][ptr[2]] = LinkFreed(p, ptr)],
     m_nextFree |-> PushFree(p, ptr)]

\* the storage of an object whose destructor has run
Destroyed == [tag |-> "destroyed", m_next |-> Null]

\* the destructor not run
DestructorSkipped(h, ptr) == h

\* p->~type()
RunDestructor(h, ptr) == [h EXCEPT ![ptr[1]][ptr[2]] = Destroyed]

\* void destroy(pointer p)
destroy(p, ptr) ==
    LET d == deallocate(p, ptr)
    IN  /\ heap' = IF ptr = Null THEN heap ELSE d.heap
        /\ m_nextFree' = IF ptr = Null THEN m_nextFree
                         ELSE [m_nextFree EXCEPT ![p] = d.m_nextFree]
        /\ live' = IF ptr = Null THEN live
                   ELSE [live EXCEPT ![p] = @ (-) SetToBag({ptr})]
        /\ event' = [op |-> "destroy", pool |-> p, arg |-> ptr, ret |-> Null,
                     threw |-> "none", grew |-> 0,
                     dtors |-> IF ptr = Null THEN 0 ELSE 1, dropped |-> 0]
        /\ round' = RoundDestroy(p, ptr)
        /\ ref' = RefDestroy(p, ptr)
        /\ freed' = FreedDestroy(p, ptr)
        /\ UNCHANGED <<m_blocks, m_blockSize, leaked>>

\* every block of the heap given back, whoever owns it
ClearAllBlocks(p) == [b \in {} |-> heap[b]]

\* m_blocks.clear(): every block goes back to the upstream allocator
ClearBlocks(p) == [b \in DOMAIN heap \ Range(m_blocks[p]) |-> heap[b]]

\* m_blockSize after release(): release() does not assign it
ReleasedBlockSize(p) == m_blockSize[p]

\* the head left on a released block
ReleasedHeadKept(p) == m_nextFree[p]

\* m_nextFree = nullptr
ReleasedHead(p) == Null

\* void release()
release(p) ==
    /\ heap' = ClearBlocks(p)
    /\ m_blocks' = [m_blocks EXCEPT ![p] = <<>>]
    /\ m_nextFree' = [m_nextFree EXCEPT ![p] = ReleasedHead(p)]
    /\ m_blockSize' = [m_blockSize EXCEPT ![p] = ReleasedBlockSize(p)]
    /\ live' = [live EXCEPT ![p] = EmptyBag]
    /\ leaked' = [leaked EXCEPT ![p] = {}]
    /\ event' = [op |-> "release", pool |-> p, arg |-> Null, ret |-> Null,
                 threw |-> "none", grew |-> 0, dtors |-> 0,
                 dropped |-> BagCardinality(live[p])]
    /\ round' = IF round.pool = p THEN NoRound ELSE round
    /\ ref' = IF BagCardinality(live[p]) = 0 /\ leaked[p] = {} THEN FreshPool(p)
              ELSE IF ref.pool = p THEN NoRef ELSE ref
    /\ freed' = [freed EXCEPT ![p] = <<>>]

(***************************************************************************)
(* Construction.                                                           *)
(***************************************************************************)
\* Pool(size_t size) of each pool in P, in instantiation <G, M>
PoolInit(P, G, M, n) ==
    /\ GrowthFactor = G
    /\ MaxBlockSize = M
    /\ size = n
    /\ \E addr \in [P -> 1..Cardinality(P)] :
          /\ \A p, q \in P : addr[p] = addr[q] => p = q
          /\ \A p, q \in P : (p = "A" /\ q # "A") => addr[p] < addr[q]
          /\ heap = [b \in 1..Cardinality(P) |-> ThreadedBlock(b, n)]
          /\ m_blocks = [p \in P |-> <<addr[p]>>]
          /\ m_nextFree = [p \in P |-> <<addr[p], 0>>]
    /\ m_blockSize = [p \in P |-> n]
    /\ live = [p \in P |-> EmptyBag]
    /\ leaked = [p \in P |-> {}]
    /\ event = [op |-> "Pool", pool |-> "A", arg |-> Null, ret |-> Null,
                threw |-> "none", grew |-> n, dtors |-> 0, dropped |-> 0]
    /\ round = NoRound
    /\ ref = NoRef
    /\ freed = [p \in P |-> <<>>]

(***************************************************************************)
(* The mixed workload: one Pool<A>, any call in any order, within the      *)
(* caller's preconditions except that release() may drop live objects.     *)
(***************************************************************************)
Init ==
    /\ \E G \in 2..MaxGrowthFactor, M \in 1..MaxMaxBlockSize :
          \E n \in 1..M : PoolInit({"A"}, G, M, n)
    /\ n_iterations = 0
    /\ ptrs = <<>>
    /\ iter = 0
    /\ phase = "mixed"

Pools == DOMAIN m_blocks

\* s is an Item of memory that is still allocated
Allocated(s) == s[1] \in DOMAIN heap /\ s[2] \in DOMAIN heap[s[1]]

\* allocate() reads freeItem->m_next in memory that is still allocated
HeadAllocated(p) == m_nextFree[p] = Null \/ Allocated(m_nextFree[p])

\* the head is null or an Item that holds a link
HeadValid(p) ==
    \/ m_nextFree[p] = Null
    \/ Allocated(m_nextFree[p]) /\ At(m_nextFree[p]).tag = "m_next"

\* the caller may ask for one more object
MayConstruct(p) == BagCardinality(live[p]) + Cardinality(leaked[p]) < MaxLive

Construct ==
    \E p \in Pools : 
        /\ phase = "mixed"
        /\ MayConstruct(p)
        /\ HeadAllocated(p)
        /\ construct(p, TRUE, TRUE)
        /\ UNCHANGED <<paramVars, callerVars>>

ConstructorThrows ==
    \E p \in Pools :
        /\ phase = "mixed"
        /\ MayConstruct(p)
        /\ HeadAllocated(p)
        /\ construct(p, TRUE, FALSE)
        /\ UNCHANGED <<paramVars, callerVars>>

UpstreamFails ==
    \E p \in Pools :
        /\ phase = "mixed"
        /\ full(p)
        /\ construct(p, FALSE, TRUE)
        /\ UNCHANGED <<paramVars, callerVars>>

Destroy ==
    \E p \in Pools : \E ptr \in BagToSet(live[p]) :
        /\ phase = "mixed"
        /\ Allocated(ptr)
        /\ destroy(p, ptr)
        /\ UNCHANGED <<paramVars, callerVars>>

DestroyNull ==
    \E p \in Pools :
        /\ phase = "mixed"
        /\ destroy(p, Null)
        /\ UNCHANGED <<paramVars, callerVars>>

Release ==
    \E p \in Pools :
        /\ phase = "mixed"
        /\ release(p)
        /\ UNCHANGED <<paramVars, callerVars>>

Next ==
    \/ Construct
    \/ ConstructorThrows
    \/ UpstreamFails
    \/ Destroy
    \/ DestroyNull
    \/ Release

Spec == Init /\ [][Next]_vars

(***************************************************************************)
(* The mixed workload with a round trip marked in it: from the marked      *)
(* state on, the observer counts the constructs and the slots they gain.   *)
(***************************************************************************)
Mark ==
    \E p \in Pools :
        /\ phase = "mixed"
        /\ ~round.on
        /\ round' = [on |-> TRUE, pool |-> p, free0 |-> FreeCount(p), gained |-> 0,
                     n |-> 0, objs |-> {}, freeing |-> FALSE]
        /\ UNCHANGED <<paramVars, callerVars, poolVars, live, leaked, event, ref,
                       freed>>

NextRound ==
    \/ Next
    \/ Mark

SpecRound == Init /\ [][NextRound]_vars

(***************************************************************************)
(* MassAllocPool<T>() of test_pool.cpp: a Pool<T> of the default           *)
(* instantiation and pool_init_block_size slots, n_iterations constructs,  *)
(* then a destroy of every handle in the order of construction.            *)
(***************************************************************************)
InitMass ==
    /\ PoolInit({"A"}, DefaultGrowthFactor, DefaultMaxBlockSize, pool_init_block_size)
    /\ n_iterations \in (1..SmallIterations) \cup {NIterations}
    /\ ptrs = <<>>
    /\ iter = 0
    /\ phase = "alloc"

\* ptrs.emplace_back(pool.construct())
MassConstruct ==
    /\ phase = "alloc"
    /\ Len(ptrs) < n_iterations
    /\ construct("A", TRUE, TRUE)
    /\ ptrs' = Append(ptrs, event'.ret)
    /\ phase' = IF Len(ptrs) + 1 = n_iterations THEN "free" ELSE "alloc"
    /\ UNCHANGED <<paramVars, n_iterations, iter>>

\* pool.destroy(static_cast<T*>(ptrs[i]))
MassDestroy ==
    /\ phase = "free"
    /\ iter < n_iterations
    /\ destroy("A", ptrs[iter + 1])
    /\ iter' = iter + 1
    /\ phase' = IF iter + 1 = n_iterations THEN "done" ELSE "free"
    /\ UNCHANGED <<paramVars, n_iterations, ptrs>>

NextMass ==
    \/ MassConstruct
    \/ MassDestroy

SpecMass == InitMass /\ [][NextMass]_vars

(***************************************************************************)
(* Both callers: the mixed workload on the small instantiations and        *)
(* MassAllocPool on the default one.                                       *)
(***************************************************************************)
InitAll ==
    \/ Init
    \/ InitMass

NextAll ==
    \/ Next
    \/ NextMass

SpecAll == InitAll /\ [][NextAll]_vars

(***************************************************************************)
(* The mixed workload from before the pool exists: the caller picks the    *)
(* instantiation, then calls Pool(size) with any size, the sizes the       *)
(* assertions reject included.  <cassert> is taken with NDEBUG undefined,  *)
(* as the sources leave it: a failed assert aborts the program.            *)
(***************************************************************************)
\* the upper assertion left out
SizeAssertedPositive(n) == n > 0

\* assert(size > 0); assert(size <= MaxBlockSize)
SizeAsserted(n) == n > 0 /\ n <= MaxBlockSize

InitPool ==
    /\ \E G \in 2..MaxGrowthFactor, M \in 1..MaxMaxBlockSize :
          /\ GrowthFactor = G
          /\ MaxBlockSize = M
    /\ size = 0
    /\ heap = <<>>
    /\ m_blocks = <<>>
    /\ m_blockSize = <<>>
    /\ m_nextFree = <<>>
    /\ live = <<>>
    /\ leaked = <<>>
    /\ freed = <<>>
    /\ event = [op |-> "none", pool |-> "none", arg |-> Null, ret |-> Null,
                threw |-> "none", grew |-> 0, dtors |-> 0, dropped |-> 0]
    /\ round = NoRound
    /\ ref = NoRef
    /\ n_iterations = 0
    /\ ptrs = <<>>
    /\ iter = 0
    /\ phase = "start"

\* Pool(size_t size = 1) building pool p
Pool(p, n) ==
    /\ size' = n
    /\ IF SizeAsserted(n)
       THEN /\ heap' = [b \in 1..1 |-> ThreadedBlock(b, n)]
            /\ m_blocks' = [q \in {p} |-> <<1>>]
            /\ m_blockSize' = [q \in {p} |-> n]
            /\ m_nextFree' = [q \in {p} |-> <<1, 0>>]
            /\ live' = [q \in {p} |-> EmptyBag]
            /\ leaked' = [q \in {p} |-> {}]
            /\ freed' = [q \in {p} |-> <<>>]
            /\ event' = [op |-> "Pool", pool |-> p, arg |-> Null, ret |-> Null,
                         threw |-> "none", grew |-> n, dtors |-> 0, dropped |-> 0]
            /\ phase' = "mixed"
       ELSE /\ event' = [op |-> "Pool", pool |-> p, arg |-> Null, ret |-> Null,
                         threw |-> "assert", grew |-> 0, dtors |-> 0, dropped |-> 0]
            /\ phase' = "aborted"
            /\ UNCHANGED <<poolVars, live, leaked, freed>>
    /\ UNCHANGED <<round, ref>>

Construction ==
    \E n \in 0..(MaxBlockSize + 1) :
        /\ phase = "start"
        /\ Pool("A", n)
        /\ UNCHANGED <<GrowthFactor, MaxBlockSize, n_iterations, ptrs, iter>>

NextPool ==
    \/ Construction
    \/ Next

SpecPool == InitPool /\ [][NextPool]_vars

(***************************************************************************)
(* The mixed workload with print() called in any state.                    *)
(***************************************************************************)
\* for (auto& block : m_blocks) for (size_t i = 0; i < m_blockSize; ++i)
\* ... &block[i]: the items print() reads the bytes of
PrintReads(p) ==
    {<<m_blocks[p][k], i>> : <<k, i>> \in (1..Len(m_blocks[p])) \X (0..(m_blockSize[p] - 1))}

\* void print() const.  A read past the end of a block is undefined: the
\* call prints what it finds there and returns, or the program is lost.
print(p) ==
    /\ event' = [op |-> "print", pool |-> p, arg |-> Null, ret |-> Null,
                 threw |-> "none", grew |-> 0, dtors |-> 0, dropped |-> 0]
    /\ \/ phase' = phase
       \/ /\ \E s \in PrintReads(p) : ~Allocated(s)
          /\ phase' = "undefined"
    /\ UNCHANGED <<poolVars, live, leaked, round, ref, freed>>

Printing ==
    \E p \in Pools :
        /\ phase = "mixed"
        /\ HeadValid(p)
        /\ print(p)
        /\ UNCHANGED <<paramVars, n_iterations, ptrs, iter>>

NextPrint ==
    \/ Next
    \/ Printing

SpecPrint == Init /\ [][NextPrint]_vars

(***************************************************************************)
(* The mixed workload with destroy() taken statement by statement: the     *)
(* destructor call, then deallocate().                                     *)
(***************************************************************************)
\* if (p == nullptr) return; p->~type();
DestroyBegins ==
    \E p \in Pools : \E ptr \in BagToSet(live[p]) :
        /\ phase = "mixed"
        /\ Allocated(ptr)
        /\ heap' = RunDestructor(heap, ptr)
        /\ live' = [live EXCEPT ![p] = @ (-) SetToBag({ptr})]
        /\ event' = [op |-> "~type", pool |-> p, arg |-> ptr, ret |-> Null,
                     threw |-> "none", grew |-> 0, dtors |-> 1, dropped |-> 0]
        /\ phase' = "deallocate"
        /\ UNCHANGED <<paramVars, n_iterations, ptrs, iter, m_blocks, m_blockSize,
                       m_nextFree, leaked, round, ref, freed>>

\* deallocate(p);
DestroyEnds ==
    /\ phase = "deallocate"
    /\ LET p   == event.pool
           ptr == event.arg
           d   == deallocate(p, ptr)
       IN  /\ heap' = d.heap
           /\ m_nextFree' = [m_nextFree EXCEPT ![p] = d.m_nextFree]
           /\ event' = [op |-> "destroy", pool |-> p, arg |-> ptr, ret |-> Null,
                        threw |-> "none", grew |-> 0, dtors |-> 1, dropped |-> 0]
           /\ round' = RoundDestroy(p, ptr)
           /\ ref' = RefDestroy(p, ptr)
           /\ freed' = FreedDestroy(p, ptr)
    /\ phase' = "mixed"
    /\ UNCHANGED <<paramVars, n_iterations, ptrs, iter, m_blocks, m_blockSize, live,
                   leaked>>

NextSteps ==
    \/ Construct
    \/ ConstructorThrows
    \/ UpstreamFails
    \/ DestroyBegins
    \/ DestroyEnds
    \/ DestroyNull
    \/ Release

SpecSteps == Init /\ [][NextSteps]_vars

(***************************************************************************)
(* The mixed workload on two pools of one type, the second made from the   *)
(* first by the move constructor, either assigned from the other by the    *)
(* move assignment.                                                        *)
(***************************************************************************)
\* m_blocks of the moved-from pool: std::vector's move leaves it empty
MovedFromBlocks(src) == <<>>

\* m_nextFree of the moved-from pool: the defaulted move copies the pointer
MovedFromHead(src) == m_nextFree[src]

\* m_blockSize of the moved-from pool: the defaulted move copies the size
MovedFromBlockSize(src) == m_blockSize[src]

\* Pool(Pool&&) = default when dst is new, Pool& operator=(Pool&&) = default
\* when it exists: dst's blocks, if any, go back to the upstream allocator,
\* and the objects of the moved blocks are dst's from now on
Move(dst, src) ==
    LET P    == Pools \cup {dst}
        old  == IF dst \in Pools THEN Range(m_blocks[dst]) ELSE {}
    IN  /\ heap' = [b \in DOMAIN heap \ old |-> heap[b]]
        /\ m_blocks' = [q \in P |-> IF q = dst THEN m_blocks[src]
                                    ELSE IF q = src THEN MovedFromBlocks(src)
                                    ELSE m_blocks[q]]
        /\ m_blockSize' = [q \in P |-> IF q = dst THEN m_blockSize[src]
                                       ELSE IF q = src THEN MovedFromBlockSize(src)
                                       ELSE m_blockSize[q]]
        /\ m_nextFree' = [q \in P |-> IF q = dst THEN m_nextFree[src]
                                      ELSE IF q = src THEN MovedFromHead(src)
                                      ELSE m_nextFree[q]]
        /\ live' = [q \in P |-> IF q = dst THEN live[src]
                                ELSE IF q = src THEN EmptyBag ELSE live[q]]
        /\ leaked' = [q \in P |-> IF q = dst THEN leaked[src]
                                  ELSE IF q = src THEN {} ELSE leaked[q]]
        /\ freed' = [q \in P |-> IF q = dst THEN freed[src]
                                 ELSE IF q = src THEN <<>> ELSE freed[q]]
        /\ event' = [op |-> "move", pool |-> dst, arg |-> Null, ret |-> Null,
                     threw |-> "none", grew |-> 0, dtors |-> 0,
                     dropped |-> IF dst \in Pools THEN BagCardinality(live[dst]) ELSE 0]
        /\ round' = NoRound
        /\ ref' = NoRef

\* Pool<T> b(std::move(a))
MoveConstruct ==
    /\ phase = "mixed"
    /\ "B" \notin Pools
    /\ Move("B", "A")
    /\ UNCHANGED <<paramVars, callerVars>>

\* b = std::move(a), a = std::move(b)
MoveAssign ==
    \E dst \in Pools : \E src \in Pools \ {dst} :
        /\ phase = "mixed"
        /\ Move(dst, src)
        /\ UNCHANGED <<paramVars, callerVars>>

\* a construct() whose allocate() reads a link where none is or in freed
\* memory, or a destroy() of a handle whose block has been freed: undefined.
\* Where the memory is still allocated, Construct is the outcome in which
\* the bytes read as a link are null.
ThroughDangling ==
    \E p \in Pools :
        /\ phase = "mixed"
        /\ \/ /\ ~HeadValid(p)
              /\ event' = [op |-> "construct", pool |-> p, arg |-> Null,
                           ret |-> m_nextFree[p], threw |-> "none", grew |-> 0,
                           dtors |-> 0, dropped |-> 0]
           \/ \E ptr \in BagToSet(live[p]) :
                 /\ ~Allocated(ptr)
                 /\ event' = [op |-> "destroy", pool |-> p, arg |-> ptr,
                              ret |-> Null, threw |-> "none", grew |-> 0,
                              dtors |-> 1, dropped |-> 0]
        /\ phase' = "undefined"
        /\ UNCHANGED <<paramVars, n_iterations, ptrs, iter, poolVars, live, leaked,
                       round, ref, freed>>

RECURSIVE Held(_)
\* how many handles the callers of the pools P hold, with those lost to a
\* throwing constructor
Held(P) ==
    IF P = {} THEN 0
    ELSE LET p == CHOOSE q \in P : TRUE
         IN  BagCardinality(live[p]) + Cardinality(leaked[p]) + Held(P \ {p})

NextMove ==
    \/ /\ Next
       /\ Held(Pools)' <= MaxMoveLive
       /\ Cardinality(DOMAIN heap') <= MaxMoveBlocks
    \/ MoveConstruct
    \/ MoveAssign
    \/ ThroughDangling

SpecMove == Init /\ [][NextMove]_vars

(***************************************************************************)
(* Multipool<A, B>: a tuple of one Pool per type, each of the default      *)
(* instantiation and built with the same size, and any call on either      *)
(* type in any order.                                                      *)
(***************************************************************************)
Types == {"A", "B"}

\* the first pool of the tuple, whatever the type asked for
GetFirstPool(T) == "A"

\* std::get<Pool<T>>(pools)
GetPool(T) == T

\* auto construct(Args&& ...args)
Multipool_construct(T, upstream, ctorOk) == construct(GetPool(T), upstream, ctorOk)

\* void destroy(T* p)
Multipool_destroy(T, ptr) == destroy(GetPool(T), ptr)

\* void release()
Multipool_release(T) == release(GetPool(T))

\* the fold stopping after the first pool
ReleasedFirst == {"A"}

\* ((pool.release()), ...): the pools the fold calls release() on
Released == Pools

\* void release_all()
release_all ==
    /\ heap' = [b \in DOMAIN heap \ UNION {Range(m_blocks[p]) : p \in Released}
                  |-> heap[b]]
    /\ m_blocks' = [p \in Pools |-> IF p \in Released THEN <<>> ELSE m_blocks[p]]
    /\ m_nextFree' = [p \in Pools |-> IF p \in Released THEN ReleasedHead(p)
                                      ELSE m_nextFree[p]]
    /\ m_blockSize' = [p \in Pools |-> IF p \in Released THEN ReleasedBlockSize(p)
                                       ELSE m_blockSize[p]]
    /\ live' = [p \in Pools |-> IF p \in Released THEN EmptyBag ELSE live[p]]
    /\ leaked' = [p \in Pools |-> IF p \in Released THEN {} ELSE leaked[p]]
    /\ event' = [op |-> "release_all", pool |-> "all", arg |-> Null, ret |-> Null,
                 threw |-> "none", grew |-> 0, dtors |-> 0,
                 dropped |-> Cardinality(UNION {{p} \X BagToSet(live[p]) : p \in Released})]
    /\ round' = NoRound
    /\ ref' = NoRef
    /\ freed' = [p \in Pools |-> IF p \in Released THEN <<>> ELSE freed[p]]

\* Multipool(size_t n): pools(Pool<Ts>{n}...)
InitMulti ==
    /\ \E n \in 1..MaxMultiSize :
          PoolInit(Types, DefaultGrowthFactor, DefaultMaxBlockSize, n)
    /\ n_iterations = 0
    /\ ptrs = <<>>
    /\ iter = 0
    /\ phase = "multi"

\* the caller may ask for one more object of type T
MayConstructMulti(T) ==
    /\ BagCardinality(live[T]) + Cardinality(leaked[T]) < MaxMultiLive
    /\ full(GetPool(T)) => GrownBlockSize(GetPool(T)) <= MaxMultiBlockSize

MultiConstruct(T) ==
    /\ phase = "multi"
    /\ MayConstructMulti(T)
    /\ \E ctorOk \in BOOLEAN : Multipool_construct(T, TRUE, ctorOk)
    /\ UNCHANGED <<paramVars, callerVars>>

MultiUpstreamFails(T) ==
    /\ phase = "multi"
    /\ full(GetPool(T))
    /\ GrownBlockSize(GetPool(T)) <= MaxMultiBlockSize
    /\ Multipool_construct(T, FALSE, TRUE)
    /\ UNCHANGED <<paramVars, callerVars>>

MultiDestroy(T) ==
    /\ phase = "multi"
    /\ \E ptr \in BagToSet(live[T]) \cup {Null} : Multipool_destroy(T, ptr)
    /\ UNCHANGED <<paramVars, callerVars>>

MultiRelease(T) ==
    /\ phase = "multi"
    /\ Multipool_release(T)
    /\ UNCHANGED <<paramVars, callerVars>>

MultiReleaseAll ==
    /\ phase = "multi"
    /\ release_all
    /\ UNCHANGED <<paramVars, callerVars>>

NextMulti ==
    \/ \E T \in Types : MultiConstruct(T)
    \/ \E T \in Types : MultiUpstreamFails(T)
    \/ \E T \in Types : MultiDestroy(T)
    \/ \E T \in Types : MultiRelease(T)
    \/ MultiReleaseAll

SpecMulti == InitMulti /\ [][NextMulti]_vars

(***************************************************************************)
(* Properties.                                                             *)
(***************************************************************************)
Live(p) == BagToSet(live[p])

Free(p) == Range(FreeList(p))

\* C1: every slot reachable from the free-list head is a slot of a block
\* the pool owns, is read as a link, and is not held by the caller as a live
\* handle; the head itself is null or such a slot.
C1_FreeSlotsAreFree ==
    \A p \in Pools :
        /\ m_nextFree[p] = Null \/ m_nextFree[p] \in Slots(p)
        /\ \A s \in Free(p) :
              /\ s \in Slots(p)
              /\ At(s).tag = "m_next"
              /\ At(s).m_next = Null \/ At(s).m_next \in Slots(p)
              /\ s \notin Live(p)

C1_Witness ==
    /\ event.op = "destroy"
    /\ event.arg # Null
    /\ Len(m_blocks["A"]) >= 2
    /\ FreeCount("A") >= 2
    /\ BagCardinality(live["A"]) >= 2

\* C2: the caller never holds two handles to one slot: every live handle
\* was returned once, refers to a slot of an owned block, and that slot
\* holds an object.
C2_LiveHandlesDistinct ==
    \A p \in Pools : \A s \in Live(p) :
        /\ CopiesIn(s, live[p]) = 1
        /\ s \in Slots(p)
        /\ At(s).tag = "m_storage"

C2_Witness ==
    /\ Len(m_blocks["A"]) >= 3
    /\ BlockSizes("A")[2] = MaxBlockSize
    /\ BlockSizes("A")[3] = MaxBlockSize
    /\ BagCardinality(live["A"]) = MaxLive

C3_GrowthStep ==
    \A p \in Pools :
        /\ m_blockSize'[p] >= m_blockSize[p]
        /\ (event'.op = "construct" /\ event'.pool = p
                /\ event'.threw # "bad_alloc" /\ m_nextFree[p] = Null)
            => LET bs == Min(GrowthFactor * m_blockSize[p], MaxBlockSize)
               IN  /\ Len(m_blocks'[p]) = Len(m_blocks[p]) + 1
                   /\ SubSeq(m_blocks'[p], 1, Len(m_blocks[p])) = m_blocks[p]
                   /\ BlockSizes(p)' = Append(BlockSizes(p), bs)
                   /\ m_blockSize'[p] = bs

C3_Sizes ==
    \A p \in Pools :
        /\ m_blockSize[p] <= MaxBlockSize
        /\ \A k \in 1..Len(m_blocks[p]) :
              /\ BlockSizes(p)[k] <= MaxBlockSize
              /\ k > 1 => BlockSizes(p)[k - 1] <= BlockSizes(p)[k]
        /\ (GrowthFactor = 2 /\ size = 8 /\ MaxBlockSize = 1024)
            => \A k \in 1..Len(m_blocks[p]) :
                  BlockSizes(p)[k] = Min(8 * 2 ^ (k - 1), 1024)

\* C3: a construct that finds the free list empty and gets its block appends
\* exactly one block of min(G * currentBlockSize, M) slots and makes that the
\* current block size; block sizes never decrease and never exceed M; with
\* G = 2, initial size 8 and M = 1024 the k-th block has min(8 * 2^(k-1), 1024)
\* slots, however many blocks there are.
C3_BlockSizes == [][C3_GrowthStep]_vars /\ []C3_Sizes

C3_Witness ==
    /\ phase # "mixed"
    /\ Len(m_blocks["A"]) = 9
    /\ BlockSizes("A")[7] = 512
    /\ BlockSizes("A")[8] = 1024
    /\ BlockSizes("A")[9] = 1024

\* C4: after release() with no live object and at least one construct, the
\* pool has the blocks, the free count and the block size of a fresh
\* Pool(size) given the same calls.
C4_ReleasedPoolActsFresh ==
    (ref.on /\ ref.used)
        => /\ BlockSizes(ref.pool) = ref.sizes
           /\ FreeCount(ref.pool) = ref.free
           /\ m_blockSize[ref.pool] = ref.blockSize

\* C5: a construct whose constructor throws leaves the free count at what it
\* was plus the slots gained by growth, and leaves every slot free or live.
C5_FailedConstructReturnsSlot ==
    [][\A p \in Pools :
        (event'.op = "construct" /\ event'.pool = p /\ event'.threw = "constructor")
            => /\ FreeCount(p)' = FreeCount(p) + event'.grew
               /\ Slots(p)' = Free(p)' \cup Live(p)']_vars

\* C6: a construct that fails for want of a block leaves the block list, the
\* block size, the free-list head and the memory as they were.
C6_FailedGrowthLeavesState ==
    [][(event'.op = "construct" /\ event'.threw = "bad_alloc")
        => UNCHANGED <<heap, m_blocks, m_blockSize, m_nextFree>>]_vars

\* C7: destroy of a live handle puts its slot at the front of the free list;
\* a construct while destroyed handles are waiting returns the one destroyed
\* last and allocates no block.
C7_LIFO ==
    [][\A p \in Pools :
        /\ (event'.op = "destroy" /\ event'.pool = p /\ event'.arg # Null)
            => /\ m_nextFree'[p] = event'.arg
               /\ FreeList(p)' = <<event'.arg>> \o FreeList(p)
        /\ (event'.op = "construct" /\ event'.pool = p /\ event'.threw = "none"
                /\ freed[p] # <<>>)
            => /\ event'.ret = Head(freed[p])
               /\ event'.grew = 0
               /\ m_blocks'[p] = m_blocks[p]]_vars

C7_Witness ==
    /\ event.op = "construct"
    /\ event.ret # Null
    /\ event.grew = 0
    /\ freed["A"] # <<>>

\* C8: from any marked state, after N constructs the free count is the
\* marked one - N + the slots gained by growth, and once those N objects are
\* destroyed, in whatever order, it is the marked one + the slots gained.
C8_RoundTrip ==
    round.on
        => /\ ~round.freeing
              => FreeCount(round.pool) = round.free0 - round.n + round.gained
           /\ round.freeing
              => FreeCount(round.pool)
                    = round.free0 + round.gained - Cardinality(round.objs)
           /\ (round.freeing /\ round.objs = {})
              => FreeCount(round.pool) = round.free0 + round.gained

C8_Witness ==
    /\ round.on
    /\ round.freeing
    /\ round.objs = {}
    /\ round.n >= 3
    /\ round.gained > 0
    /\ round.free0 > 0

\* C9: Pool(8) of the default instantiation after 20 constructs owns blocks
\* of 8 then 16 slots and has 4 free slots; after the 20 destroys it owns
\* the same blocks and has 24 free slots.
C9_Scenario ==
    (n_iterations = 20 /\ size = 8 /\ GrowthFactor = 2 /\ MaxBlockSize = 1024)
        => /\ (phase = "free" /\ iter = 0)
              => BlockSizes("A") = <<8, 16>> /\ FreeCount("A") = 4
           /\ phase = "done"
              => BlockSizes("A") = <<8, 16>> /\ FreeCount("A") = 24

C9_Witness ==
    /\ n_iterations = 20
    /\ phase = "done"
    /\ iter = 20
    /\ FreeCount("A") = 24

\* C10: release() leaves the pool without blocks, gives every block it owned
\* back to the upstream allocator, leaves the free list empty (full() is
\* true) and runs no destructor, whether or not objects were live.
C10_Release ==
    [][\A p \in Pools :
        (event'.op = "release" /\ event'.pool = p)
            => /\ m_blocks'[p] = <<>>
               /\ Range(m_blocks[p]) \cap DOMAIN heap' = {}
               /\ full(p)'
               /\ FreeCount(p)' = 0
               /\ event'.dtors = 0
               /\ event'.dropped = BagCardinality(live[p])]_vars

C10_Witness ==
    /\ event.op = "release"
    /\ event.dropped >= 2
    /\ m_blocks["A"] = <<>>
    /\ full("A")

C11_FullQuery ==
    \A p \in Pools :
        /\ phase = "mixed"
            => /\ full(p) <=> FreeList(p) = <<>>
               /\ full(p) <=> ~(\E s \in Slots(p) : At(s).tag = "m_next")
        /\ (event.op = "Pool" /\ phase = "mixed") => ~full(p)
        /\ (event.op = "release" /\ event.pool = p) => full(p)
        /\ (event.op = "destroy" /\ event.pool = p /\ event.arg # Null) => ~full(p)
        /\ (phase = "alloc" /\ Len(ptrs) <= size) => (full(p) <=> Len(ptrs) = size)

C11_GrowsWhenFull ==
    \A p \in Pools :
        (event'.op = "construct" /\ event'.pool = p /\ event'.threw # "bad_alloc")
            => (full(p) <=> Len(m_blocks'[p]) = Len(m_blocks[p]) + 1)

\* C11: full() is true exactly when no slot of the pool is free, which is
\* exactly when the next construct appends a block; it is false right after
\* Pool(S), true after exactly S constructs and no destroy, true right after
\* release() and false right after a destroy of a live handle.
C11_Full == [][C11_GrowsWhenFull]_vars /\ []C11_FullQuery

C11_Witness ==
    /\ phase = "alloc"
    /\ Len(ptrs) = size
    /\ full("A")

\* C12: no call but release() moves, resizes or frees a block: the block
\* list only grows, by one block at its end and only in a construct; every
\* owned block keeps its address and its size; a handle that stays live
\* keeps its slot and its object.
C12_AddressStability ==
    [][\A p \in Pools :
        event'.op # "release"
            => /\ Len(m_blocks'[p]) \in {Len(m_blocks[p]), Len(m_blocks[p]) + 1}
               /\ SubSeq(m_blocks'[p], 1, Len(m_blocks[p])) = m_blocks[p]
               /\ Len(m_blocks'[p]) > Len(m_blocks[p])
                    => /\ event'.op = "construct"
                       /\ m_blocks'[p][Len(m_blocks'[p])] \notin DOMAIN heap
               /\ \A b \in Range(m_blocks[p]) :
                    /\ b \in DOMAIN heap'
                    /\ DOMAIN heap'[b] = DOMAIN heap[b]
               /\ \A s \in Live(p) :
                    \/ event'.op = "destroy" /\ event'.arg = s
                    \/ s \in Live(p)' /\ s \in Slots(p)' /\ At(s)' = At(s)]_vars

C12_Witness ==
    /\ event.op = "construct"
    /\ event.grew > 0
    /\ Len(m_blocks["A"]) >= 3
    /\ BagCardinality(live["A"]) >= 3

\* C17: while no constructor has thrown, the free list is a chain without
\* repetition that ends in the null link, every slot of every owned block
\* is either on it or live, never both, and the free count plus the number
\* of live objects is the sum of the block sizes.
C17_SlotConservation ==
    \A p \in Pools :
        leaked[p] = {}
            => /\ Cardinality(Free(p)) = FreeCount(p)
               /\ FreeCount(p) <= Cardinality(Slots(p))
               /\ FreeCount(p) > 0 => At(FreeList(p)[FreeCount(p)]).m_next = Null
               /\ Free(p) \cup Live(p) = Slots(p)
               /\ Free(p) \cap Live(p) = {}
               /\ FreeCount(p) + BagCardinality(live[p]) = Cardinality(Slots(p))

C17_Witness ==
    /\ event.op = "destroy"
    /\ event.arg # Null
    /\ leaked["A"] = {}
    /\ Len(m_blocks["A"]) >= 3
    /\ FreeCount("A") >= 3
    /\ BagCardinality(live["A"]) >= 2

\* what Pool<T> is: its members, its callers' objects and its blocks' content
PoolState(T) ==
    [m_blocks    |-> m_blocks[T],
     m_blockSize |-> m_blockSize[T],
     m_nextFree  |-> m_nextFree[T],
     live        |-> live[T],
     leaked      |-> leaked[T],
     owned       |-> Range(m_blocks[T]) \subseteq DOMAIN heap,
     content     |-> [b \in Range(m_blocks[T]) \cap DOMAIN heap |-> heap[b]]]

\* C13: a release<T>(), construct<T>() or destroy<T>() on a Multipool<A, B>
\* leaves the other type's pool as it was: its block list, block size, free
\* list head, blocks' content and live objects, which stay in owned blocks.
C13_OtherPoolUntouched ==
    [][\A T \in Types :
        (\/ MultiRelease(T)
         \/ MultiConstruct(T)
         \/ MultiUpstreamFails(T)
         \/ MultiDestroy(T))
            => \A U \in Types \ {T} :
                  /\ PoolState(U)' = PoolState(U)
                  /\ PoolState(U)'.owned
                  /\ \A s \in Live(U) : s \in Slots(U)' /\ At(s)' = Object]_vars

C13_Witness ==
    /\ phase = "multi"
    /\ event.op = "release"
    /\ event.pool = "A"
    /\ event.dropped >= 1
    /\ BagCardinality(live["B"]) >= 2
    /\ Len(m_blocks["B"]) >= 2

C14_Disjoint ==
    \A T \in Types :
        /\ Live(T) \subseteq Slots(T)
        /\ Free(T) \subseteq Slots(T)
        /\ Range(m_blocks[T]) \subseteq DOMAIN heap
        /\ \A U \in Types \ {T} :
              /\ Range(m_blocks[T]) \cap Range(m_blocks[U]) = {}
              /\ Slots(T) \cap Slots(U) = {}
              /\ Free(T) \cap Free(U) = {}
              /\ Live(T) \cap Slots(U) = {}

C14_ConstructStaysHome ==
    \A T \in Types :
        (MultiConstruct(T) /\ event'.ret # Null)
            => /\ event'.ret \in Slots(T)'
               /\ \A U \in Types \ {T} : event'.ret \notin Slots(U)'

\* C14: in a Multipool<A, B>, whatever the interleaving, a handle returned by
\* construct<T>() is a slot of a block owned by Pool<T> and of no block of
\* the other pool; the two pools share no block, no slot and no free slot.
C14_PoolsDisjoint == [][C14_ConstructStaysHome]_vars /\ []C14_Disjoint

C14_Witness ==
    /\ phase = "multi"
    /\ event.op = "construct"
    /\ event.pool = "B"
    /\ event.grew > 0
    /\ Len(m_blocks["A"]) >= 2
    /\ Len(m_blocks["B"]) >= 2
    /\ BagCardinality(live["A"]) >= 1

\* C15: release_all() leaves every member pool with no block, an empty free
\* list and no live object, gives every block back and runs no destructor;
\* a construct<T>() on a pool without blocks that does not throw returns a
\* slot of a block it has just allocated.
C15_ReleaseAll ==
    [][/\ MultiReleaseAll
          => /\ DOMAIN heap' = {}
             /\ event'.dtors = 0
             /\ \A T \in Types :
                   /\ m_blocks'[T] = <<>>
                   /\ full(T)'
                   /\ FreeList(T)' = <<>>
                   /\ live'[T] = EmptyBag
       /\ \A T \in Types :
            (MultiConstruct(T) /\ m_blocks[T] = <<>> /\ event'.threw = "none")
                => /\ event'.grew > 0
                   /\ Len(m_blocks'[T]) = 1
                   /\ event'.ret[1] = m_blocks'[T][1]
                   /\ event'.ret \in Slots(T)'
                   /\ m_blocks'[T][1] \notin DOMAIN heap]_vars

C15_Witness ==
    /\ event.op = "release_all"
    /\ event.dropped >= 3

\* C16: Pool(initialSize) with initialSize = 0 or initialSize > MaxBlockSize
\* fails its assertion: the program aborts, no pool exists and no call
\* follows; with 1 <= initialSize <= MaxBlockSize it leaves a pool of exactly
\* one block of initialSize slots, every one of them on the free list.
C16_Constructor ==
    [][/\ phase # "aborted"
       /\ event'.op = "Pool"
            => IF size' = 0 \/ size' > MaxBlockSize
               THEN /\ phase' = "aborted"
                    /\ event'.threw = "assert"
                    /\ Pools' = {}
                    /\ DOMAIN heap' = {}
               ELSE /\ phase' = "mixed"
                    /\ event'.threw = "none"
                    /\ Pools' = {"A"}
                    /\ BlockSizes("A")' = <<size'>>
                    /\ m_blockSize'["A"] = size'
                    /\ FreeCount("A")' = size'
                    /\ Free("A")' = Slots("A")'
                    /\ live'["A"] = EmptyBag
                    /\ DOMAIN heap' = Range(m_blocks'["A"])]_vars

C16_Witness ==
    /\ phase = "aborted"
    /\ event.op = "Pool"
    /\ size > MaxBlockSize

C18_HeadsApart ==
    \A p \in Pools : \A q \in Pools \ {p} :
        /\ m_nextFree[p] \notin Slots(q)
        /\ Free(p) \cap Slots(q) = {}

C18_ConstructsApart ==
    \A p \in Pools : \A q \in Pools \ {p} :
        (event'.op = "construct" /\ event'.pool = p /\ event'.ret # Null)
            => /\ event'.ret \notin Slots(q)'
               /\ event'.ret \notin Free(q)'

\* C18: after a move the blocks belong to the destination alone: no other
\* pool's free list head or free list reaches a slot of them, and a
\* construct on another pool never returns a slot of a block the
\* destination owns or a slot the destination's free list still holds.
C18_MovedBlocksExclusive == [][C18_ConstructsApart]_vars /\ []C18_HeadsApart

\* C19: print() leaves the blocks, the block size, the head and the objects
\* as they were, and the items it reads in a block are items of that block.
C19_PrintReadsInBounds ==
    [][\A p \in Pools :
        (event'.op = "print" /\ event'.pool = p)
            => /\ UNCHANGED <<heap, m_blocks, m_blockSize, m_nextFree, live, leaked>>
               /\ PrintReads(p) \subseteq Slots(p)
               /\ phase' = phase]_vars

\* C20: destroy(p) of a live handle runs the destructor of its object once,
\* while the slot still holds the object and before the slot is linked or
\* reachable from the head; only the deallocate() that follows links it and
\* puts it at the head.  destroy(nullptr) runs no destructor and leaves the
\* pool as it was.  An object ends only by that destructor call or, without
\* a destructor, with its block in release().
C20_DestroyOrder ==
    [][\A p \in Pools :
        /\ (event'.op = "destroy" /\ event'.pool = p /\ event'.arg = Null)
              => /\ event'.dtors = 0
                 /\ UNCHANGED <<heap, m_blocks, m_blockSize, m_nextFree, live, leaked>>
        /\ (event'.op = "~type" /\ event'.pool = p) => event'.arg \in Live(p)
        /\ (event.op = "~type" /\ event.pool = p) => event.arg \in Slots(p)
        /\ (event'.op = "destroy" /\ event'.pool = p /\ event'.arg # Null)
              => event.op = "~type" /\ event.arg = event'.arg
        /\ \A s \in Slots(p) :
              /\ (event'.op = "~type" /\ event'.arg = s)
                    => /\ At(s) = Object
                       /\ At(s)' = Destroyed
                       /\ event'.dtors = 1
                       /\ Free(p)' = Free(p)
                       /\ UNCHANGED <<m_blocks, m_blockSize, m_nextFree>>
              /\ (event.op = "~type" /\ event.arg = s)
                    => /\ event'.op = "destroy"
                       /\ event'.arg = s
                       /\ At(s) = Destroyed
                       /\ At(s)' = Link(m_nextFree[p])
                       /\ m_nextFree'[p] = s
              /\ (At(s).tag # "m_next" /\ s \in Slots(p)' /\ At(s)'.tag = "m_next")
                    => At(s) = Destroyed /\ event.op = "~type" /\ event.arg = s
              /\ (s \in Slots(p)' /\ At(s) = Object /\ At(s)' # Object)
                    => event'.op = "~type" /\ event'.arg = s
              /\ (s \notin Slots(p)' /\ At(s) = Object)
                    => event'.op = "release" /\ event'.dtors = 0
              /\ At(s) = Destroyed => event.op = "~type" /\ event.arg = s
        /\ m_nextFree'[p] # m_nextFree[p]
              => \A s \in Free(p)' \ Free(p) :
                    s \in Slots(p) => event.op = "~type" /\ event.arg = s]_vars

C20_Witness ==
    /\ event.op = "~type"
    /\ phase = "deallocate"
    /\ Len(m_blocks["A"]) >= 2
    /\ FreeCount("A") >= 1
    /\ BagCardinality(live["A"]) >= 1

====
